---------------------------- MODULE Spec2Model ----------------------------
(***************************************************************************)
(* A model of oxide_msg: the Message envelope and its JSON byte form       *)
(* (src/src/message.rs) and the three messaging patterns built on ZeroMQ   *)
(* sockets (src/src/patterns/{pipeline,reqrep,pubsub}.rs).                 *)
(*                                                                         *)
(* Bytes are sequences of one-character strings.  A payload               *)
(* (serde_json::Value) is a tagged record:                                 *)
(*   [t |-> "null"]            [t |-> "bool", b |-> TRUE]                  *)
(*   [t |-> "num", n |-> -3]   [t |-> "str", s |-> <<"a">>]                *)
(*   [t |-> "arr", a |-> <<v1, v2>>]                                       *)
(*   [t |-> "obj", o |-> [k \in keys |-> v]]   (keys are strings)          *)
(***************************************************************************)
EXTENDS Integers, Sequences, FiniteSets, TLC

(***************************************************************************)
(* Bounds of the model.                                                    *)
(***************************************************************************)
MaxStrLen == 1      \* longest topic / string payload / object key
MaxArrLen == 1      \* longest array payload
MaxNum    == 11     \* numbers range over -MaxNum .. MaxNum
NumPullers == 2     \* Pullers connected to the Pusher
MaxPush   == 2      \* push calls
MaxCalls  == 2      \* calls on the Requester
MaxPub    == 2      \* publish and publish_raw calls
MaxSubs   == 2      \* prefix registrations at a time
MaxFail   == 1      \* publications before which a send of publish_raw fails
NumCallers == 2     \* callers sharing one Puller
MaxForeign == 1     \* malformed requests, and malformed replies, of peers
                    \* that do not encode envelopes

(***************************************************************************)
(* Characters.                                                             *)
(***************************************************************************)
QUOTE  == "\""
BSLASH == "\\"
NL     == "\n"
TAB    == "\t"

Digits == <<"0", "1", "2", "3", "4", "5", "6", "7", "8", "9">>

IsDigit(c) == \E d \in 1..10 : Digits[d] = c

DigitVal(c) == (CHOOSE d \in 1..10 : Digits[d] = c) - 1

\* Byte value of the characters the model uses (the BTreeMap key order).
CharCode(c) ==
    CASE c = TAB    -> 9
      [] c = NL     -> 10
      [] c = " "    -> 32
      [] c = QUOTE  -> 34
      [] c = ","    -> 44
      [] c = "-"    -> 45
      [] c = "/"    -> 47
      [] IsDigit(c) -> 48 + DigitVal(c)
      [] c = ":"    -> 58
      [] c = "X"    -> 88
      [] c = "["    -> 91
      [] c = BSLASH -> 92
      [] c = "]"    -> 93
      [] c = "a"    -> 97
      [] c = "t"    -> 116
      [] c = "{"    -> 123
      [] c = "}"    -> 125
      [] OTHER      -> 127

RECURSIVE StrLess(_, _)
StrLess(s, u) ==
    IF s = <<>> THEN u # <<>>
    ELSE IF u = <<>> THEN FALSE
    ELSE IF Head(s) = Head(u) THEN StrLess(Tail(s), Tail(u))
    ELSE CharCode(Head(s)) < CharCode(Head(u))

RECURSIVE Count(_, _)
Count(seq, e) ==
    IF seq = <<>> THEN 0
    ELSE (IF Head(seq) = e THEN 1 ELSE 0) + Count(Tail(seq), e)

RECURSIVE SumOver(_, _)
SumOver(f, S) ==
    IF S = {} THEN 0
    ELSE LET x == CHOOSE y \in S : TRUE IN f[x] + SumOver(f, S \ {x})

\* b starts with the bytes p
StartsWith(b, p) == Len(p) <= Len(b) /\ SubSeq(b, 1, Len(p)) = p

(***************************************************************************)
(* Payload values.                                                         *)
(***************************************************************************)
VNull    == [t |-> "null"]
VBool(x) == [t |-> "bool", b |-> x]
VNum(x)  == [t |-> "num", n |-> x]
VStr(x)  == [t |-> "str", s |-> x]
VArr(x)  == [t |-> "arr", a |-> x]
VObj(x)  == [t |-> "obj", o |-> x]

EmptyMap == [k \in {} |-> VNull]

\* BTreeMap::insert: a later value for the same key replaces the earlier one
MapInsert(m, k, v) ==
    [x \in (DOMAIN m) \cup {k} |-> IF x = k THEN v ELSE m[x]]

\* Message::new
Message(topic, payload) == [topic |-> topic, payload |-> payload]

(***************************************************************************)
(* Serialization: serde_json::to_vec of the derived Serialize.             *)
(***************************************************************************)
EscapeChar(c) ==
    CASE c = QUOTE  -> <<BSLASH, QUOTE>>
      [] c = BSLASH -> <<BSLASH, BSLASH>>
      [] c = NL     -> <<BSLASH, "n">>
      [] c = TAB    -> <<BSLASH, "t">>
      [] OTHER      -> <<c>>

RECURSIVE EscapeChars(_)
EscapeChars(s) ==
    IF s = <<>> THEN <<>> ELSE EscapeChar(Head(s)) \o EscapeChars(Tail(s))

EncodeString(s) == <<QUOTE>> \o EscapeChars(s) \o <<QUOTE>>

RECURSIVE EncodeNat(_)
EncodeNat(n) ==
    IF n < 10 THEN <<Digits[n + 1]>>
    ELSE EncodeNat(n \div 10) \o <<Digits[(n % 10) + 1]>>

EncodeInt(n) == IF n < 0 THEN <<"-">> \o EncodeNat(0 - n) ELSE EncodeNat(n)

\* the least key of a non-empty key set, in byte order
MinKey(ks) == CHOOSE k \in ks : \A x \in ks : x = k \/ StrLess(k, x)

RECURSIVE EncodeValue(_), EncodeElems(_), EncodeEntries(_, _)
EncodeValue(v) ==
    CASE v.t = "null" -> <<"n", "u", "l", "l">>
      [] v.t = "bool" -> IF v.b THEN <<"t", "r", "u", "e">>
                         ELSE <<"f", "a", "l", "s", "e">>
      [] v.t = "num"  -> EncodeInt(v.n)
      [] v.t = "str"  -> EncodeString(v.s)
      [] v.t = "arr"  -> <<"[">> \o EncodeElems(v.a) \o <<"]">>
      [] v.t = "obj"  -> <<"{">> \o EncodeEntries(v.o, DOMAIN v.o) \o <<"}">>

EncodeElems(a) ==
    IF a = <<>> THEN <<>>
    ELSE IF Len(a) = 1 THEN EncodeValue(Head(a))
    ELSE EncodeValue(Head(a)) \o <<",">> \o EncodeElems(Tail(a))

EncodeEntries(m, ks) ==
    IF ks = {} THEN <<>>
    ELSE LET k == MinKey(ks)
             e == EncodeString(k) \o <<":">> \o EncodeValue(m[k])
         IN  IF ks = {k} THEN e
             ELSE e \o <<",">> \o EncodeEntries(m, ks \ {k})

TopicKey   == <<"t", "o", "p", "i", "c">>
PayloadKey == <<"p", "a", "y", "l", "o", "a", "d">>

\* to_bytes writing the topic between quotes as it is, without escapes
to_bytes_raw_topic(m) ==
    <<"{">> \o EncodeString(TopicKey) \o <<":">>
    \o <<QUOTE>> \o m.topic \o <<QUOTE>>
    \o <<",">> \o EncodeString(PayloadKey) \o <<":">> \o EncodeValue(m.payload)
    \o <<"}">>

\* Message::to_bytes: {"topic":<string>,"payload":<value>}
to_bytes(m) ==
    <<"{">> \o EncodeString(TopicKey) \o <<":">> \o EncodeString(m.topic)
    \o <<",">> \o EncodeString(PayloadKey) \o <<":">> \o EncodeValue(m.payload)
    \o <<"}">>

(***************************************************************************)
(* Deserialization: serde_json::from_slice into the derived Deserialize.   *)
(* A parse result is [ok |-> FALSE] or [ok |-> TRUE, v |-> value,          *)
(* i |-> index of the first byte not consumed].  Numbers are the integer   *)
(* forms only: no input of the model puts '.', 'e' or 'E' after a digit,   *)
(* and no string holds one of the escapes \b \f \r \u.                     *)
(***************************************************************************)
Fail == [ok |-> FALSE]

Parsed(v, i) == [ok |-> TRUE, v |-> v, i |-> i]

\* F applied to the value of e, with e evaluated once
Let(e, F(_)) == CHOOSE y \in {F(x) : x \in {e}} : TRUE

\* the byte at i, or "" past the end
At(b, i) == IF i <= Len(b) THEN b[i] ELSE ""

IsWs(c) == c = " " \/ c = NL \/ c = TAB

RECURSIVE SkipWs(_, _)
SkipWs(b, i) == IF IsWs(At(b, i)) THEN SkipWs(b, i + 1) ELSE i

\* the bytes lit stand at i
Literal(b, i, lit) ==
    i + Len(lit) - 1 <= Len(b) /\ SubSeq(b, i, i + Len(lit) - 1) = lit

\* i stands after the opening quote; acc is the string read so far
RECURSIVE ParseStr(_, _, _)
ParseStr(b, i, acc) ==
    Let(At(b, i), LAMBDA c :
        IF c = "" \/ c = NL \/ c = TAB THEN Fail
        ELSE IF c = QUOTE THEN Parsed(acc, i + 1)
        ELSE IF c = BSLASH THEN
            Let(At(b, i + 1), LAMBDA e :
                IF e = QUOTE \/ e = BSLASH \/ e = "/"
                    THEN ParseStr(b, i + 2, Append(acc, e))
                ELSE IF e = "n" THEN ParseStr(b, i + 2, Append(acc, NL))
                ELSE IF e = "t" THEN ParseStr(b, i + 2, Append(acc, TAB))
                ELSE Fail)
        ELSE ParseStr(b, i + 1, Append(acc, c)))

RECURSIVE ParseDigits(_, _, _)
ParseDigits(b, i, acc) ==
    IF IsDigit(At(b, i)) THEN ParseDigits(b, i + 1, acc * 10 + DigitVal(b[i]))
    ELSE Parsed(acc, i)

\* a number without sign: "0" alone, or a digit 1-9 and more digits
ParseNat(b, i) ==
    Let(At(b, i), LAMBDA c :
        IF ~IsDigit(c) THEN Fail
        ELSE IF c = "0"
             THEN (IF IsDigit(At(b, i + 1)) THEN Fail ELSE Parsed(0, i + 1))
        ELSE ParseDigits(b, i, 0))

ParseNum(b, i) ==
    IF At(b, i) = "-"
    THEN Let(ParseNat(b, i + 1), LAMBDA r :
             IF r.ok THEN Parsed(VNum(0 - r.v), r.i) ELSE Fail)
    ELSE Let(ParseNat(b, i), LAMBDA r :
             IF r.ok THEN Parsed(VNum(r.v), r.i) ELSE Fail)

RECURSIVE ParseValue(_, _), ParseArr(_, _, _, _), ParseObj(_, _, _, _)
\* Value::deserialize: white space, then one value
ParseValue(b, i0) ==
    Let(SkipWs(b, i0), LAMBDA i :
    Let(At(b, i), LAMBDA c :
        CASE c = "n" -> IF Literal(b, i, <<"n", "u", "l", "l">>)
                        THEN Parsed(VNull, i + 4) ELSE Fail
          [] c = "t" -> IF Literal(b, i, <<"t", "r", "u", "e">>)
                        THEN Parsed(VBool(TRUE), i + 4) ELSE Fail
          [] c = "f" -> IF Literal(b, i, <<"f", "a", "l", "s", "e">>)
                        THEN Parsed(VBool(FALSE), i + 5) ELSE Fail
          [] c = "-" \/ IsDigit(c) -> ParseNum(b, i)
          [] c = QUOTE -> Let(ParseStr(b, i + 1, <<>>), LAMBDA r :
                              IF r.ok THEN Parsed(VStr(r.v), r.i) ELSE Fail)
          [] c = "[" -> ParseArr(b, i + 1, <<>>, TRUE)
          [] c = "{" -> ParseObj(b, i + 1, EmptyMap, TRUE)
          [] OTHER -> Fail))

\* SeqAccess::next_element until ']'; i0 stands after '[' or after an element
ParseArr(b, i0, acc, first) ==
    Let(SkipWs(b, i0), LAMBDA i :
    Let(At(b, i), LAMBDA c :
        IF c = "" THEN Fail
        ELSE IF c = "]" THEN Parsed(VArr(acc), i + 1)
        ELSE IF ~first /\ c # "," THEN Fail
        ELSE Let(IF first THEN i ELSE SkipWs(b, i + 1), LAMBDA j :
                 IF At(b, j) = "]" \/ At(b, j) = "" THEN Fail
                 ELSE Let(ParseValue(b, j), LAMBDA r :
                          IF r.ok
                          THEN Let(Append(acc, r.v), LAMBDA acc2 :
                                   ParseArr(b, r.i, acc2, FALSE))
                          ELSE Fail))))

\* the key and the colon of one map entry: the key, and the index after ':'
ParseKey(b, j) ==
    IF At(b, j) # QUOTE THEN Fail
    ELSE Let(ParseStr(b, j + 1, <<>>), LAMBDA k :
             IF ~k.ok THEN Fail
             ELSE Let(SkipWs(b, k.i), LAMBDA c :
                      IF At(b, c) = ":" THEN Parsed(k.v, c + 1) ELSE Fail))

\* MapAccess::next_key / next_value until '}'
ParseObj(b, i0, acc, first) ==
    Let(SkipWs(b, i0), LAMBDA i :
    Let(At(b, i), LAMBDA c :
        IF c = "" THEN Fail
        ELSE IF c = "}" THEN Parsed(VObj(acc), i + 1)
        ELSE IF ~first /\ c # "," THEN Fail
        ELSE Let(IF first THEN i ELSE SkipWs(b, i + 1), LAMBDA j :
             Let(ParseKey(b, j), LAMBDA k :
                 IF ~k.ok THEN Fail
                 ELSE Let(ParseValue(b, k.i), LAMBDA r :
                          IF r.ok
                          THEN Let(MapInsert(acc, k.v, r.v), LAMBDA acc2 :
                                   ParseObj(b, r.i, acc2, FALSE))
                          ELSE Fail)))))

\* next_value::<String>
ParseStringValue(b, i0) ==
    Let(SkipWs(b, i0), LAMBDA i :
        IF At(b, i) = QUOTE THEN ParseStr(b, i + 1, <<>>) ELSE Fail)

None == [some |-> FALSE]

Some(x) == [some |-> TRUE, v |-> x]

\* the derived visit_map: fields topic and payload, once each, others ignored
RECURSIVE ParseFields(_, _, _, _, _)
ParseFields(b, i0, topic, payload, first) ==
    Let(SkipWs(b, i0), LAMBDA i :
    Let(At(b, i), LAMBDA c :
        IF c = "" THEN Fail
        ELSE IF c = "}"
        THEN (IF topic.some /\ payload.some
              THEN Parsed(Message(topic.v, payload.v), i + 1) ELSE Fail)
        ELSE IF ~first /\ c # "," THEN Fail
        ELSE Let(IF first THEN i ELSE SkipWs(b, i + 1), LAMBDA j :
             Let(ParseKey(b, j), LAMBDA k :
                 IF ~k.ok THEN Fail
                 ELSE IF k.v = TopicKey
                 THEN Let(ParseStringValue(b, k.i), LAMBDA r :
                          IF topic.some \/ ~r.ok THEN Fail
                          ELSE Let(Some(r.v), LAMBDA t2 :
                                   ParseFields(b, r.i, t2, payload, FALSE)))
                 ELSE Let(ParseValue(b, k.i), LAMBDA r :
                          IF ~r.ok THEN Fail
                          ELSE IF k.v = PayloadKey
                          THEN (IF payload.some THEN Fail
                                ELSE Let(Some(r.v), LAMBDA p2 :
                                         ParseFields(b, r.i, topic, p2, FALSE)))
                          ELSE ParseFields(b, r.i, topic, payload, FALSE))))))

\* the derived visit_seq: [topic, payload]
ParseTuple(b, i0) ==
    Let(SkipWs(b, i0), LAMBDA i :
        IF At(b, i) = "]" \/ At(b, i) = "" THEN Fail
        ELSE Let(ParseStringValue(b, i), LAMBDA t :
             IF ~t.ok THEN Fail
             ELSE Let(SkipWs(b, t.i), LAMBDA c :
                  IF At(b, c) # "," THEN Fail
                  ELSE Let(SkipWs(b, c + 1), LAMBDA j :
                       IF At(b, j) = "]" \/ At(b, j) = "" THEN Fail
                       ELSE Let(ParseValue(b, j), LAMBDA p :
                            IF ~p.ok THEN Fail
                            ELSE Let(SkipWs(b, p.i), LAMBDA e :
                                 IF At(b, e) = "]"
                                 THEN Parsed(Message(t.v, p.v), e + 1)
                                 ELSE Fail))))))

\* the struct and what follows it: nothing but white space may follow
ParseMessage(b) ==
    Let(SkipWs(b, 1), LAMBDA i :
    Let(IF At(b, i) = "{" THEN ParseFields(b, i + 1, None, None, TRUE)
        ELSE IF At(b, i) = "[" THEN ParseTuple(b, i + 1)
        ELSE Fail, LAMBDA r :
        IF r.ok /\ SkipWs(b, r.i) = Len(b) + 1
        THEN [ok |-> TRUE, v |-> r.v] ELSE Fail))

\* Message::from_bytes: [ok |-> TRUE, v |-> message] or [ok |-> FALSE], the
\* Err(OxideError::Serialization)
from_bytes(bytes) == Let(bytes, LAMBDA b : ParseMessage(b))

(***************************************************************************)
(* The envelopes of the model.                                             *)
(***************************************************************************)
Chars == {"a", "{", QUOTE, BSLASH, NL}

SeqsUpTo(S, n) == UNION {[1..k -> S] : k \in 0..n}

Strings == SeqsUpTo(Chars, MaxStrLen)

Nums == {0 - MaxNum, 0, 7, MaxNum}

Scalars ==
    {VNull, VBool(TRUE), VBool(FALSE)}
    \cup {VNum(n) : n \in Nums} \cup {VStr(s) : s \in Strings}

\* elements of arrays and objects, some of them nested
Elems ==
    {VNull, VNum(0 - MaxNum), VStr(<<QUOTE>>), VArr(<<VNum(7)>>),
     VObj(<<"a">> :> VStr(<<BSLASH>>))}

Keys == {<<"a">>, <<QUOTE>>, <<"a", BSLASH>>}

Arrays == {VArr(a) : a \in SeqsUpTo(Elems, MaxArrLen)}

Objects ==
    {VObj(f) : f \in UNION {[K -> Elems] :
                    K \in {k \in SUBSET Keys : Cardinality(k) <= MaxArrLen}}}

Payloads == Scalars \cup Arrays \cup Objects

Envelopes == {Message(t, p) : t \in Strings, p \in Payloads}

(***************************************************************************)
(* Results of the calls.  An Err carries the error kind (the OxideError    *)
(* variant) and the transport's errno (the text the variant holds).        *)
(***************************************************************************)
Ok(m) == [res |-> "Ok", msg |-> m]

OkUnit == [res |-> "Ok"]

OkNone == [res |-> "None"]

Err(kind, errno) == [res |-> "Err", kind |-> kind, errno |-> errno]

NoCall == [op |-> "none"]

\* Ok(..) of a blocking call, Ok(Some(..)) of a timeout or try call
IsOkMsg(r) == r.res = "Ok" /\ "msg" \in DOMAIN r

\* the end of pull / receive / request: Message::from_bytes(&bytes)
Decoded(bytes) ==
    LET d == from_bytes(bytes) IN
    IF d.ok THEN Ok(d.v) ELSE Err("Serialization", "decode")

(***************************************************************************)
(* The transport, as far as the calls of the patterns use it.              *)
(***************************************************************************)
SetTimeo(ms) == [ms |-> ms]

\* ZMQ_RCVTIMEO: -1 waits without limit (the default)
DefaultTimeo == SetTimeo(-1)

\* the timeout_ms arguments of the model; -2 is rejected by the transport
TimeoutArgs == {-2, -1, 200}

\* socket.set_rcvtimeo(ms): accepted from -1 upwards
TimeoAccepted(ms) == ms >= -1

\* the deadline of a receive: whether it ends the wait for a message
Expires(timeo) == timeo.ms >= 0

\* a receive that takes the frame queued last
RecvOutcomesLifo(q, timeo, dontwait) ==
    (IF q # <<>>
     THEN {[st |-> "frame", frame |-> q[Len(q)], rest |-> SubSeq(q, 1, Len(q) - 1)]}
     ELSE {})
    \cup (IF q = <<>> /\ (dontwait \/ Expires(timeo))
          THEN {[st |-> "EAGAIN", rest |-> q]} ELSE {})
    \cup {[st |-> "EINTR", rest |-> q]}

\* A frame on the wire is a record: its bytes, and what the histories of
\* the model need to tell frames apart.
\* socket.recv_bytes(flags) on a queue q of frames: the frame at the head;
\* EAGAIN when nothing is queued and the call does not wait (DONTWAIT) or
\* its deadline passes; EINTR, a failure of the transport.  With nothing
\* queued and no deadline the call waits: no outcome.
RecvOutcomes(q, timeo, dontwait) ==
    (IF q # <<>> THEN {[st |-> "frame", frame |-> Head(q), rest |-> Tail(q)]}
     ELSE {})
    \cup (IF q = <<>> /\ (dontwait \/ Expires(timeo))
          THEN {[st |-> "EAGAIN", rest |-> q]} ELSE {})
    \cup {[st |-> "EINTR", rest |-> q]}

\* the match of pull_timeout / try_pull (and the like) on a receive outcome
TimedResult(o) ==
    CASE o.st = "frame"  -> Decoded(o.frame.bytes)
      [] o.st = "EAGAIN" -> OkNone
      [] OTHER           -> Err("Receive", o.st)

\* the map_err(..)? of pull / receive / request on a receive outcome
BlockingResult(o) ==
    IF o.st = "frame" THEN Decoded(o.frame.bytes) ELSE Err("Receive", o.st)

(***************************************************************************)
(* State.                                                                  *)
(***************************************************************************)
VARIABLES
    codecIn,      \* the envelope under test
    codecBytes,   \* None, or Some(its bytes) once to_bytes has run
    codecOut,     \* None, or Some(result of from_bytes on those bytes)
    pushed,       \* the envelopes of the successful push calls, in order
    pullQ,        \* per Puller, the frames queued on its socket
    pullTimeo,    \* per Puller, the receive timeout of its socket
    pulled,       \* per Puller, the envelopes its calls returned, in order
    pullLast,     \* the last call on a Puller: who, which, its result
    callLocked,   \* the callers sharing Puller 1 run each call under a lock
    callPc,       \* per caller, where its pull_timeout call on Puller 1 is
    reqFsm,       \* the REQ socket: "IDLE" or "AWAITING_REPLY"
    reqTimeo,     \* the receive timeout of the REQ socket
    reqPc,        \* None, or Some(id) of the call waiting in its receive
    reqLog,       \* the calls on the Requester, in order, with their results
    toRep,        \* requests on the wire, not yet received by the Replier
    toReq,        \* replies on the wire, not yet received by the Requester
    repFsm,       \* the REP socket: "IDLE" or "AWAITING_REPLY_SEND"
    repCur,       \* the request the REP socket will route the next reply to
    repTimeo,     \* the receive timeout of the REP socket
    repLog,       \* the requests received and replies sent, in order
    repLast,      \* the last call on the Replier and its result
    pubLog,       \* the messages published, in order: the call, its
                  \* arguments, the frames it sent
    subFilters,   \* per prefix, how many times the Subscriber registered it
    subSince,     \* how many messages were published when the set of
                  \* registered prefixes last changed
    subQ,         \* the frames queued on the SUB socket
    subMore,      \* the SUB socket is inside a multipart message
    subTimeo,     \* the receive timeout of the SUB socket
    subLog,       \* the frames the Subscriber's calls read, with the results
    pubHeld       \* the frames the PUB socket took with SNDMORE for a message
                  \* whose last frame it has not been given, and whether
                  \* they went to the Subscriber

codecVars == <<codecIn, codecBytes, codecOut>>

pipeVars == <<pushed, pullQ, pullTimeo, pulled, pullLast>>

callVars == <<callLocked, callPc>>

reqVars == <<reqFsm, reqTimeo, reqPc, reqLog, toRep, toReq,
             repFsm, repCur, repTimeo, repLog, repLast>>

pubVars == <<pubLog, subFilters, subSince, subQ, subMore, subTimeo, subLog,
             pubHeld>>

vars == <<codecVars, pipeVars, callVars, reqVars, pubVars>>

notCodec == <<pipeVars, callVars, reqVars, pubVars>>

notPipe == <<codecVars, callVars, reqVars, pubVars>>

\* all but the Pullers' sockets and the callers
notCall == <<codecVars, reqVars, pubVars>>

notReq == <<codecVars, pipeVars, callVars, pubVars>>

notPub == <<codecVars, pipeVars, callVars, reqVars>>

(***************************************************************************)
(* The envelope alone: m.to_bytes() and then Message::from_bytes on the    *)
(* bytes, as in test_message_serialization.                                *)
(***************************************************************************)
CodecInit ==
    /\ codecIn \in Envelopes
    /\ codecBytes = None
    /\ codecOut = None

CodecOff ==
    /\ codecIn = Message(<<>>, VNull)
    /\ codecBytes = None
    /\ codecOut = None

Encode ==
    /\ ~codecBytes.some
    /\ codecBytes' = Some(to_bytes(codecIn))
    /\ UNCHANGED <<codecIn, codecOut, notCodec>>

Decode ==
    /\ codecBytes.some
    /\ ~codecOut.some
    /\ codecOut' = Some(from_bytes(codecBytes.v))
    /\ UNCHANGED <<codecIn, codecBytes, notCodec>>

(***************************************************************************)
(* Pipeline: one bound Pusher, NumPullers connected Pullers.               *)
(***************************************************************************)
Pullers == 1..NumPullers

Tasks == {Message(<<"t">>, VNum(7)), Message(<<QUOTE>>, VArr(<<VNull>>))}

PipeInit ==
    /\ pushed = <<>>
    /\ pullQ = [p \in Pullers |-> <<>>]
    /\ pullTimeo = [p \in Pullers |-> DefaultTimeo]
    /\ pulled = [p \in Pullers |-> <<>>]
    /\ pullLast = NoCall

PipeOff ==
    /\ pushed = <<>>
    /\ pullQ = <<>>
    /\ pullTimeo = <<>>
    /\ pulled = <<>>
    /\ pullLast = NoCall

\* PushSend that hands the message to every connected peer
PushSendAll(bytes, p) ==
    pullQ' = [q \in Pullers |-> Append(pullQ[q], [bytes |-> bytes])]

\* socket.send on the PUSH socket: the message goes to one connected peer
\* (the transport's load balancing picks it), or the send fails
PushSend(bytes, p) ==
    pullQ' = [pullQ EXCEPT ![p] = Append(@, [bytes |-> bytes])]

\* Pusher::push
Push(m) ==
    /\ Len(pushed) < MaxPush
    /\ \/ \E p \in Pullers :
            /\ PushSend(to_bytes(m), p)
            /\ pushed' = Append(pushed, m)
       \/ UNCHANGED <<pushed, pullQ>>     \* Err(Send)
    /\ UNCHANGED <<pullTimeo, pulled, pullLast, notPipe>>

\* what a receive call on Puller p leaves behind: the queue, the history
\* and the result r of the call op
PullDone(p, op, o, r) ==
    /\ pullQ' = [pullQ EXCEPT ![p] = o.rest]
    /\ pulled' = IF IsOkMsg(r) THEN [pulled EXCEPT ![p] = Append(@, r.msg)]
                 ELSE pulled
    /\ pullLast' = [op |-> op, who |-> p, r |-> r, waited |-> o.st]

\* Puller::pull
Pull(p) ==
    /\ \E o \in RecvOutcomes(pullQ[p], pullTimeo[p], FALSE) :
           PullDone(p, "pull", o, BlockingResult(o))
    /\ UNCHANGED <<pushed, pullTimeo, notPipe>>

\* Puller::pull_timeout
PullTimeout(p, ms) ==
    IF ~TimeoAccepted(ms)
    THEN /\ pullLast' = [op |-> "pull_timeout", who |-> p,
                         r |-> Err("Configuration", "EINVAL"),
                         waited |-> "no"]
         /\ UNCHANGED <<pushed, pullQ, pullTimeo, pulled, notPipe>>
    ELSE /\ pullTimeo' = [pullTimeo EXCEPT ![p] = SetTimeo(ms)]
         /\ \E o \in RecvOutcomes(pullQ[p], SetTimeo(ms), FALSE) :
                PullDone(p, "pull_timeout", o, TimedResult(o))
         /\ UNCHANGED <<pushed, notPipe>>

\* Puller::try_pull
TryPull(p) ==
    /\ \E o \in RecvOutcomes(pullQ[p], pullTimeo[p], TRUE) :
           PullDone(p, "try_pull", o, TimedResult(o))
    /\ UNCHANGED <<pushed, pullTimeo, notPipe>>

PipeNext ==
    \/ \E m \in Tasks : Push(m)
    \/ \E p \in Pullers : Pull(p)
    \/ \E p \in Pullers, ms \in TimeoutArgs : PullTimeout(p, ms)
    \/ \E p \in Pullers : TryPull(p)

(***************************************************************************)
(* One Puller shared by several callers, each making one pull_timeout      *)
(* call.  The call is two steps on the socket: set_rcvtimeo, then          *)
(* recv_bytes, which waits with the timeout the socket holds at that       *)
(* moment.  With callLocked the callers run each whole call under a lock.  *)
(***************************************************************************)
Callers == 1..NumCallers

\* the Puller the callers share
SharedPuller == 1

\* the timeout_ms arguments of the callers
CallTimeouts == TimeoutArgs \cup {500}

Idle == [st |-> "idle"]

\* a caller inside its call, after set_rcvtimeo(ms)
Receiving(ms) == [st |-> "recv", ms |-> ms]

\* a caller whose call has returned r; used is None, or Some(the timeout
\* its receive waited with)
Done(ms, used, r) == [st |-> "done", ms |-> ms, used |-> used, r |-> r]

CallOff ==
    /\ callLocked = FALSE
    /\ callPc = <<>>

CallInit ==
    /\ callLocked \in BOOLEAN
    /\ callPc = [c \in Callers |-> Idle]

\* the first step taken without regard for the lock
CallSetTimeoUnlocked(c, ms) ==
    /\ callPc[c] = Idle
    /\ IF ~TimeoAccepted(ms)
       THEN /\ callPc' = [callPc EXCEPT
                              ![c] = Done(ms, None, Err("Configuration", "EINVAL"))]
            /\ UNCHANGED pullTimeo
       ELSE /\ callPc' = [callPc EXCEPT ![c] = Receiving(ms)]
            /\ pullTimeo' = [pullTimeo EXCEPT ![SharedPuller] = SetTimeo(ms)]
    /\ UNCHANGED <<pushed, pullQ, pulled, pullLast, callLocked, notCall>>

\* pull_timeout, first step: self.socket.set_rcvtimeo(timeout_ms)
CallSetTimeo(c, ms) ==
    /\ callPc[c] = Idle
    /\ callLocked => \A d \in Callers : callPc[d].st # "recv"
    /\ IF ~TimeoAccepted(ms)
       THEN /\ callPc' = [callPc EXCEPT
                              ![c] = Done(ms, None, Err("Configuration", "EINVAL"))]
            /\ UNCHANGED pullTimeo
       ELSE /\ callPc' = [callPc EXCEPT ![c] = Receiving(ms)]
            /\ pullTimeo' = [pullTimeo EXCEPT ![SharedPuller] = SetTimeo(ms)]
    /\ UNCHANGED <<pushed, pullQ, pulled, pullLast, callLocked, notCall>>

\* the return of caller c's call on the receive outcome o
CallReturn(c, o) ==
    /\ PullDone(SharedPuller, "pull_timeout", o, TimedResult(o))
    /\ callPc' = [callPc EXCEPT
                     ![c] = Done(callPc[c].ms, Some(pullTimeo[SharedPuller].ms),
                                 TimedResult(o))]
    /\ UNCHANGED <<pushed, pullTimeo, callLocked, notCall>>

\* pull_timeout, second step: self.socket.recv_bytes(0) ends with a message
\* or at the deadline the socket holds
CallRecv(c) ==
    /\ callPc[c].st = "recv"
    /\ \E o \in RecvOutcomes(pullQ[SharedPuller], pullTimeo[SharedPuller], FALSE) :
           o.st # "EINTR" /\ CallReturn(c, o)

\* pull_timeout, second step: recv_bytes fails in the transport
CallRecvFails(c) ==
    /\ callPc[c].st = "recv"
    /\ \E o \in RecvOutcomes(pullQ[SharedPuller], pullTimeo[SharedPuller], FALSE) :
           o.st = "EINTR" /\ CallReturn(c, o)

CallNext ==
    \/ \E m \in Tasks : Push(m)
    \/ \E c \in Callers, ms \in CallTimeouts : CallSetTimeo(c, ms)
    \/ \E c \in Callers : CallRecv(c)
    \/ \E c \in Callers : CallRecvFails(c)

(***************************************************************************)
(* Request/reply: one Requester connected to one bound Replier.  A request *)
(* call sends and then waits in its receive, so it takes two steps; the    *)
(* Replier's calls run in between.  Calls are numbered in the order they   *)
(* start, and each frame carries, for the histories, the number of the     *)
(* request it is or answers.                                               *)
(***************************************************************************)
Requests == {Message(<<"a">>, VNum(7)), Message(<<"{">>, VStr(<<QUOTE>>))}

Replies == {Message(<<"a">>, VNum(7)), Message(<<"t">>, VBool(TRUE))}

Pending == [res |-> "Pending"]

\* bytes that are not an encoded envelope
Garbage == <<"X">>

\* how many requests a peer other than the Requester has sent so far
ForeignRequests ==
    Cardinality({i \in DOMAIN toRep : toRep[i].id = 0})
    + Cardinality({j \in DOMAIN repLog :
                      repLog[j].ev = "receive" /\ repLog[j].id = 0})

\* how many requests were answered with bytes that are not an envelope
ForeignReplies ==
    Cardinality({j \in DOMAIN repLog : repLog[j].ev = "reply_raw"})

ReqInit ==
    /\ reqFsm = "IDLE"
    /\ reqTimeo = DefaultTimeo
    /\ reqPc = None
    /\ reqLog = <<>>
    /\ toRep = <<>>
    /\ toReq = <<>>
    /\ repFsm = "IDLE"
    /\ repCur = 0
    /\ repTimeo = DefaultTimeo
    /\ repLog = <<>>
    /\ repLast = NoCall

ReqOff == ReqInit

\* a REQ socket that sends whatever its state (ZMQ_REQ_RELAXED)
ReqMaySendRelaxed(fsm) == TRUE

\* socket.send on the REQ socket is refused (EFSM) while a reply is awaited
ReqMaySend(fsm) == fsm = "IDLE"

\* a REQ socket that is idle again after any receive, also one that timed out
ReqAfterRecvReset(fsm, o) == "IDLE"

\* a REQ socket that stays as it is whatever its receive reads
ReqAfterRecvStuck(fsm, o) == fsm

\* the REQ socket after socket.recv_bytes: idle once a reply frame was read
ReqAfterRecv(fsm, o) == IF o.st = "frame" THEN "IDLE" ELSE fsm

\* a REP socket that owes a reply after every recv_bytes, a timed-out one
\* included
RepAfterRecvAlways(fsm, o) == "AWAITING_REPLY_SEND"

\* the REP socket after socket.recv_bytes: it owes a reply once a request
\* frame was read, and is as before when the call read nothing
RepAfterRecv(fsm, o) == IF o.st = "frame" THEN "AWAITING_REPLY_SEND" ELSE fsm

\* a REP socket that sends without a request to answer
RepMaySendAlways(fsm) == TRUE

\* socket.send on the REP socket is refused (EFSM) unless a request was read
RepMaySend(fsm) == fsm = "AWAITING_REPLY_SEND"

\* socket.recv_bytes on the REP socket is refused (EFSM) until the reply
RepMayRecv(fsm) == fsm = "IDLE"

\* one entry of reqLog: the call, its request, whether the request was
\* sent, the result, and the number of the request whose reply it read
Call(op, e, sent, r, got) ==
    [op |-> op, e |-> e, sent |-> sent, r |-> r, got |-> got]

\* the send step of request and request_timeout; ms is the timeout that
\* request_timeout sets after the send, None for request
RequestSend(op, e, ms) ==
    /\ ~reqPc.some
    /\ Len(reqLog) < MaxCalls
    /\ LET id == Len(reqLog) + 1 IN
       \/ /\ ~ReqMaySend(reqFsm)
          /\ reqLog' = Append(reqLog, Call(op, e, FALSE, Err("Send", "EFSM"), 0))
          /\ UNCHANGED <<reqFsm, reqTimeo, reqPc, toRep>>
       \/ /\ ReqMaySend(reqFsm)
          /\ reqLog' = Append(reqLog, Call(op, e, FALSE, Err("Send", "EINTR"), 0))
          /\ UNCHANGED <<reqFsm, reqTimeo, reqPc, toRep>>
       \/ /\ ReqMaySend(reqFsm)
          /\ toRep' = Append(toRep, [bytes |-> to_bytes(e), id |-> id])
          /\ reqFsm' = "AWAITING_REPLY"
          /\ IF ms.some /\ ~TimeoAccepted(ms.v)
             THEN /\ reqLog' = Append(reqLog,
                        Call(op, e, TRUE, Err("Configuration", "EINVAL"), 0))
                  /\ UNCHANGED <<reqTimeo, reqPc>>
             ELSE /\ reqLog' = Append(reqLog, Call(op, e, TRUE, Pending, 0))
                  /\ reqTimeo' = IF ms.some THEN SetTimeo(ms.v) ELSE reqTimeo
                  /\ reqPc' = Some(id)
    /\ UNCHANGED <<toReq, repFsm, repCur, repTimeo, repLog, repLast, notReq>>

\* Requester::request, up to its receive
Request(e) == RequestSend("request", e, None)

\* Requester::request_timeout, up to its receive
RequestTimeout(e, ms) == RequestSend("request_timeout", e, Some(ms))

\* the receive of request / request_timeout and the return of the call
RequestReturn ==
    /\ reqPc.some
    /\ \E o \in RecvOutcomes(toReq, reqTimeo, FALSE) :
           LET id == reqPc.v
               c == reqLog[id]
               r == IF c.op = "request" THEN BlockingResult(o)
                    ELSE TimedResult(o)
               got == IF o.st = "frame" THEN o.frame.id ELSE 0
           IN  /\ toReq' = o.rest
               /\ reqFsm' = ReqAfterRecv(reqFsm, o)
               /\ reqLog' = [reqLog EXCEPT ![id] = Call(c.op, c.e, TRUE, r, got)]
    /\ reqPc' = None
    /\ UNCHANGED <<reqTimeo, toRep, repFsm, repCur, repTimeo, repLog, repLast,
                   notReq>>

\* what a receive call on the Replier leaves behind
RepRecvDone(op, o, r) ==
    /\ toRep' = o.rest
    /\ repFsm' = RepAfterRecv(repFsm, o)
    /\ repCur' = IF o.st = "frame" THEN o.frame.id ELSE repCur
    /\ repLog' = IF o.st = "frame"
                 THEN Append(repLog, [ev |-> "receive", id |-> o.frame.id, r |-> r])
                 ELSE repLog
    /\ repLast' = [op |-> op, r |-> r, waited |-> o.st]

RepRecvRefused(op) ==
    /\ repLast' = [op |-> op, r |-> Err("Receive", "EFSM"), waited |-> "no"]
    /\ UNCHANGED <<toRep, repFsm, repCur, repLog>>

\* Replier::receive
RepReceive ==
    /\ IF ~RepMayRecv(repFsm) THEN RepRecvRefused("receive")
       ELSE \E o \in RecvOutcomes(toRep, repTimeo, FALSE) :
                RepRecvDone("receive", o, BlockingResult(o))
    /\ UNCHANGED <<reqFsm, reqTimeo, reqPc, reqLog, toReq, repTimeo, notReq>>

\* Replier::receive_timeout
RepReceiveTimeout(ms) ==
    /\ IF ~TimeoAccepted(ms)
       THEN /\ repLast' = [op |-> "receive_timeout",
                           r |-> Err("Configuration", "EINVAL"), waited |-> "no"]
            /\ UNCHANGED <<toRep, repFsm, repCur, repLog, repTimeo>>
       ELSE /\ repTimeo' = SetTimeo(ms)
            /\ IF ~RepMayRecv(repFsm) THEN RepRecvRefused("receive_timeout")
               ELSE \E o \in RecvOutcomes(toRep, SetTimeo(ms), FALSE) :
                        RepRecvDone("receive_timeout", o, TimedResult(o))
    /\ UNCHANGED <<reqFsm, reqTimeo, reqPc, reqLog, toReq, notReq>>

\* a peer that is not a Requester (request number 0) sends the Replier
\* bytes that are not an envelope
ForeignRequest ==
    /\ ForeignRequests < MaxForeign
    /\ toRep' = Append(toRep, [bytes |-> Garbage, id |-> 0])
    /\ UNCHANGED <<reqFsm, reqTimeo, reqPc, reqLog, toReq, repFsm, repCur,
                   repTimeo, repLog, repLast, notReq>>

\* the request at the head of the wire is served without the Replier (by a
\* server that does not encode envelopes): it is taken off the wire and
\* answered with bytes that are not an envelope
ForeignServe ==
    /\ ForeignReplies < MaxForeign
    /\ RepMayRecv(repFsm)
    /\ toRep # <<>>
    /\ Head(toRep).id # 0
    /\ toRep' = Tail(toRep)
    /\ toReq' = Append(toReq, [bytes |-> Garbage, id |-> Head(toRep).id])
    /\ repLog' = Append(repLog, [ev |-> "reply_raw", id |-> Head(toRep).id])
    /\ UNCHANGED <<reqFsm, reqTimeo, reqPc, reqLog, repFsm, repCur, repTimeo,
                   repLast, notReq>>

\* Replier::reply
Reply(m) ==
    /\ Len(repLog) < 2 * (MaxCalls + MaxForeign)
    /\ \/ /\ ~RepMaySend(repFsm)
          /\ repLast' = [op |-> "reply", r |-> Err("Send", "EFSM"), waited |-> "no"]
          /\ UNCHANGED <<toReq, repFsm, repLog>>
       \/ /\ RepMaySend(repFsm)
          /\ repLast' = [op |-> "reply", r |-> Err("Send", "EINTR"), waited |-> "no"]
          /\ UNCHANGED <<toReq, repFsm, repLog>>
       \/ /\ RepMaySend(repFsm)
          /\ toReq' = IF repCur = 0 THEN toReq   \* routed to the other peer
                       ELSE Append(toReq, [bytes |-> to_bytes(m), id |-> repCur])
          /\ repFsm' = "IDLE"
          /\ repLog' = Append(repLog, [ev |-> "reply", id |-> repCur, msg |-> m])
          /\ repLast' = [op |-> "reply", r |-> OkUnit, waited |-> "no"]
    /\ UNCHANGED <<reqFsm, reqTimeo, reqPc, reqLog, toRep, repCur, repTimeo,
                   notReq>>

ReqRepNext ==
    \/ \E e \in Requests : Request(e)
    \/ \E e \in Requests, ms \in TimeoutArgs : RequestTimeout(e, ms)
    \/ RequestReturn
    \/ RepReceive
    \/ \E ms \in TimeoutArgs : RepReceiveTimeout(ms)
    \/ \E m \in Replies : Reply(m)
    \/ ForeignRequest
    \/ ForeignServe

(***************************************************************************)
(* Publish/subscribe: one bound Publisher, one connected Subscriber.       *)
(* A frame carries, for the histories, the number of its message in        *)
(* pubLog and its place in that message.                                   *)
(***************************************************************************)
Prefixes == {<<>>, <<"X">>, <<"{">>}

News == {Message(<<"X">>, VNull), Message(<<"{">>, VNum(7))}

\* the (topic, data) arguments of publish_raw; the last data is itself an
\* encoded envelope
Raws ==
    {<<<<"X">>, <<"d">>>>, <<<<"a">>, <<"d">>>>,
     <<<<"X">>, to_bytes(Message(<<"a">>, VNull))>>}

\* the PUB socket between two messages
NothingHeld == [frames |-> <<>>, to |-> FALSE]

PubInit ==
    /\ pubLog = <<>>
    /\ subFilters = [p \in Prefixes |-> 0]
    /\ subSince = 0
    /\ subQ = <<>>
    /\ subMore = FALSE
    /\ subTimeo = DefaultTimeo
    /\ subLog = <<>>
    /\ pubHeld = NothingHeld

PubOff == PubInit

\* the prefixes registered at least once
Registered == {p \in Prefixes : subFilters[p] > 0}

\* the SUB socket's filter: the first frame starts with a registered prefix
Matches(filters, bytes) ==
    \E p \in Prefixes : filters[p] > 0 /\ StartsWith(bytes, p)

\* publish sending the topic as a frame of its own before the envelope
PublishFramesTopicFirst(m) == <<m.topic, to_bytes(m)>>

\* the frames of Publisher::publish: the encoded envelope, alone
PublishFrames(m) == <<to_bytes(m)>>

\* publish_raw sending the topic and the data joined in one frame
PublishRawOneFrame(topic, data) == <<topic \o data>>

\* the frames of Publisher::publish_raw: the topic (SNDMORE), then the data
PublishRawFrames(topic, data) == <<topic, data>>

\* message number id on the wire: its frames, all but the last flagged more
Wire(id, frames) ==
    [i \in 1..Len(frames) |->
        [bytes |-> frames[i], more |-> i < Len(frames), id |-> id, part |-> i]]

\* socket.send on the PUB socket, frame by frame, the last one without
\* SNDMORE: the frames end the message the socket holds, which is a message
\* of these frames alone when it holds nothing.  The message goes to the
\* Subscriber if its first frame matched a registered prefix when it was
\* sent.  pubLog keeps, as the frames of the call, the message that went out.
PubSend(kind, args, frames) ==
    LET id == Len(pubLog) + 1
        sent == pubHeld.frames \o frames
        deliver == IF pubHeld.frames = <<>> THEN Matches(subFilters, frames[1])
                   ELSE pubHeld.to
    IN  /\ Len(pubLog) < MaxPub
        /\ pubLog' = Append(pubLog, [kind |-> kind, args |-> args,
                                     frames |-> sent])
        /\ subQ' = IF deliver THEN subQ \o Wire(id, sent) ELSE subQ
        /\ pubHeld' = NothingHeld
        /\ UNCHANGED <<subFilters, subSince, subMore, subTimeo, subLog, notPub>>

\* Publisher::publish
Publish(m) == PubSend("publish", m, PublishFrames(m))

\* Publisher::publish_raw
PublishRaw(topic, data) ==
    PubSend("publish_raw", <<topic, data>>, PublishRawFrames(topic, data))

\* set_unsubscribe: one registration of the prefix less, if there is one
RemoveOne(filters, p) ==
    [filters EXCEPT ![p] = IF @ > 0 THEN @ - 1 ELSE 0]

\* set_subscribe: one registration of the prefix more
AddOne(filters, p) == [filters EXCEPT ![p] = @ + 1]

\* the messages published so far that the filters match, as on the wire
RECURSIVE Replay(_, _)
Replay(filters, id) ==
    IF id > Len(pubLog) THEN <<>>
    ELSE (IF Matches(filters, pubLog[id].frames[1])
          THEN Wire(id, pubLog[id].frames) ELSE <<>>)
         \o Replay(filters, id + 1)

\* a change of filters that has the Publisher send again what it published
FiltersChangeReplay(new) ==
    /\ subFilters' = new
    /\ subSince' = IF {p \in Prefixes : new[p] > 0} = Registered
                   THEN subSince ELSE Len(pubLog)
    /\ subQ' = subQ \o Replay(new, 1)
    /\ UNCHANGED <<pubLog, subMore, subTimeo, subLog, pubHeld, notPub>>

FiltersChange(new) ==
    /\ subFilters' = new
    /\ subSince' = IF {p \in Prefixes : new[p] > 0} = Registered
                   THEN subSince ELSE Len(pubLog)
    /\ UNCHANGED <<pubLog, subQ, subMore, subTimeo, subLog, pubHeld, notPub>>

\* Subscriber::subscribe
Subscribe(p) ==
    /\ SumOver(subFilters, Prefixes) < MaxSubs
    /\ FiltersChange(AddOne(subFilters, p))

\* Subscriber::unsubscribe
Unsubscribe(p) == FiltersChange(RemoveOne(subFilters, p))

\* the frames of q after its first message
RECURSIVE DropMessage(_)
DropMessage(q) ==
    IF q = <<>> THEN <<>>
    ELSE IF Head(q).more THEN DropMessage(Tail(q)) ELSE Tail(q)

\* what the SUB socket's receive sees of its queue: inside a message the
\* next frame; otherwise the first message whose first frame matches a
\* registered prefix, the messages before it being dropped
RECURSIVE SubVisible(_, _, _)
SubVisible(q, more, filters) ==
    IF q = <<>> \/ more \/ Matches(filters, Head(q).bytes) THEN q
    ELSE SubVisible(DropMessage(q), FALSE, filters)

\* what a receive call on the Subscriber leaves behind: the queue, and in
\* the history the frame it read, its result r, and whether any prefix
\* was registered
SubRecvDone(op, o, r) ==
    /\ subQ' = o.rest
    /\ subMore' = IF o.st = "frame" THEN o.frame.more ELSE subMore
    /\ subLog' = IF o.st = "frame"
                 THEN Append(subLog, [id |-> o.frame.id, part |-> o.frame.part,
                                      r |-> r,
                                      nofilter |-> Registered = {}])
                 ELSE subLog

\* Subscriber::receive
SubReceive ==
    /\ \E o \in RecvOutcomes(SubVisible(subQ, subMore, subFilters),
                             subTimeo, FALSE) :
           SubRecvDone("receive", o, BlockingResult(o))
    /\ UNCHANGED <<pubLog, subFilters, subSince, subTimeo, pubHeld, notPub>>

\* Subscriber::receive_timeout
SubReceiveTimeout(ms) ==
    IF ~TimeoAccepted(ms)
    THEN UNCHANGED vars     \* Err(Configuration)
    ELSE /\ subTimeo' = SetTimeo(ms)
         /\ \E o \in RecvOutcomes(SubVisible(subQ, subMore, subFilters),
                                  SetTimeo(ms), FALSE) :
                SubRecvDone("receive_timeout", o, TimedResult(o))
         /\ UNCHANGED <<pubLog, subFilters, subSince, pubHeld, notPub>>

\* Subscriber::try_receive
SubTryReceive ==
    /\ \E o \in RecvOutcomes(SubVisible(subQ, subMore, subFilters),
                             subTimeo, TRUE) :
           SubRecvDone("try_receive", o, TimedResult(o))
    /\ UNCHANGED <<pubLog, subFilters, subSince, subTimeo, pubHeld, notPub>>

\* Publisher::publish_raw returning Err(Send): its first send fails and
\* nothing is sent, or its second send fails after the socket took the
\* topic frame with SNDMORE
PublishRawFails(topic, data) ==
    /\ Len(pubLog) < MaxFail
    /\ pubHeld.frames = <<>>
    /\ \/ UNCHANGED pubHeld
       \/ pubHeld' = [frames |-> pubHeld.frames \o <<topic>>,
                      to |-> IF pubHeld.frames = <<>>
                             THEN Matches(subFilters, topic) ELSE pubHeld.to]
    /\ UNCHANGED <<pubLog, subFilters, subSince, subQ, subMore, subTimeo,
                   subLog, notPub>>

PubSubNext ==
    \/ \E m \in News : Publish(m)
    \/ \E raw \in Raws : PublishRaw(raw[1], raw[2])
    \/ \E p \in Prefixes : Subscribe(p)
    \/ \E p \in Prefixes : Unsubscribe(p)
    \/ SubReceive
    \/ \E ms \in TimeoutArgs : SubReceiveTimeout(ms)
    \/ SubTryReceive

(***************************************************************************)
(* The specifications: the envelope alone (Spec), and one per pattern.     *)
(***************************************************************************)
Init == CodecInit /\ PipeOff /\ CallOff /\ ReqOff /\ PubOff

Next == Encode \/ Decode

Spec == Init /\ [][Next]_vars

PipelineInit == CodecOff /\ PipeInit /\ CallOff /\ ReqOff /\ PubOff

PipelineSpec == PipelineInit /\ [][PipeNext]_vars

ReqRepInit == CodecOff /\ PipeOff /\ CallOff /\ ReqInit /\ PubOff

ReqRepSpec == ReqRepInit /\ [][ReqRepNext]_vars

PubSubInit == CodecOff /\ PipeOff /\ CallOff /\ ReqOff /\ PubInit

PubSubSpec == PubSubInit /\ [][PubSubNext]_vars

\* publish/subscribe with sends of publish_raw that fail
PubFailNext ==
    \/ PubSubNext
    \/ \E raw \in Raws : PublishRawFails(raw[1], raw[2])

PubFailSpec == PubSubInit /\ [][PubFailNext]_vars

SharedPullerInit == CodecOff /\ PipeInit /\ CallInit /\ ReqOff /\ PubOff

\* a receive that can end with a message or at its deadline does end; the
\* transport need not fail, and the Pusher need not push
SharedPullerSpec ==
    /\ SharedPullerInit
    /\ [][CallNext]_vars
    /\ \A c \in Callers : WF_vars(CallRecv(c))

Drained == \A p \in Pullers : pullQ[p] = <<>>

FanOutExactlyOnce ==
    Drained =>
        /\ SumOver([p \in Pullers |-> Len(pulled[p])], Pullers) = Len(pushed)
        /\ \A e \in Tasks :
               SumOver([p \in Pullers |-> Count(pulled[p], e)], Pullers)
                   = Count(pushed, e)

\* both Pullers have returned a task, the same task pushed twice
FanOutWitness ==
    /\ Drained
    /\ Len(pushed) = MaxPush
    /\ \A p \in Pullers : pulled[p] # <<>>
    /\ \E e \in Tasks : Count(pushed, e) >= 2

(***************************************************************************)
(* C6: a deadline set by a timeout variant applies to that call only: a    *)
(* later blocking pull() on the same handle waits until a message arrives  *)
(* or the transport fails, and never returns because the deadline passed.  *)
(***************************************************************************)
BlockingPullHasNoDeadline ==
    pullLast.op = "pull" => pullLast.waited # "EAGAIN"

(***************************************************************************)
(* C7: no receive operation reports a wait that ended with no message as   *)
(* an Err: that outcome is Ok(None) and nothing else.                      *)
(***************************************************************************)
NoMessageIsNeverErr ==
    (pullLast.op # "none" /\ pullLast.waited = "EAGAIN") =>
        pullLast.r = OkNone

(***************************************************************************)
(* C3: a request(e) call returns Ok only after the Replier has received e  *)
(* and then made exactly one reply(r) call for it, and what it returns is  *)
(* r; never before that reply is sent.                                     *)
(***************************************************************************)
ReplyEvents(id) ==
    {j \in DOMAIN repLog : repLog[j].ev = "reply" /\ repLog[j].id = id}

RequestOkAfterOneReply ==
    \A id \in DOMAIN reqLog :
        (reqLog[id].op = "request" /\ IsOkMsg(reqLog[id].r)) =>
            /\ Cardinality(ReplyEvents(id)) = 1
            /\ \E i \in DOMAIN repLog, j \in ReplyEvents(id) :
                   /\ i < j
                   /\ repLog[i] = [ev |-> "receive", id |-> id,
                                   r |-> Ok(reqLog[id].e)]
                   /\ repLog[j].msg = reqLog[id].r.msg

\* two request calls in a row have returned their replies, the second reply
\* differing from its request
RequestOkWitness ==
    /\ Len(reqLog) = 2
    /\ \A id \in DOMAIN reqLog :
           reqLog[id].op = "request" /\ IsOkMsg(reqLog[id].r)
    /\ reqLog[2].r.msg # reqLog[2].e
    /\ reqLog[2].r.msg # reqLog[1].r.msg

(***************************************************************************)
(* C4: whatever request and request_timeout calls came before (timed out,  *)
(* answered late), an envelope a call returns is the reply to the request  *)
(* that same call sent; a call made while an earlier request is still      *)
(* unanswered fails (or waits), and never returns the earlier reply.       *)
(***************************************************************************)
\* call k sent its request and ended without reading a reply
Unanswered(k) ==
    reqLog[k].sent /\ reqLog[k].r # Pending /\ reqLog[k].got = 0

NoStaleReply ==
    \A id \in DOMAIN reqLog :
        /\ IsOkMsg(reqLog[id].r) =>
               /\ reqLog[id].got = id
               /\ \E j \in ReplyEvents(id) : repLog[j].msg = reqLog[id].r.msg
        /\ (\E k \in 1..(id - 1) : Unanswered(k)) =>
               (reqLog[id].r.res = "Err" /\ ~reqLog[id].sent)

\* a request_timeout timed out, its reply came late and is on the wire, and
\* the next call has failed without returning it
NoStaleReplyWitness ==
    /\ Len(reqLog) = 2
    /\ reqLog[1].r = OkNone
    /\ toReq # <<>>
    /\ reqLog[2].r.res = "Err"

(***************************************************************************)
(* C5: once request_timeout has returned None the handle stays in          *)
(* AWAITING_REPLY: every later request or request_timeout fails at its     *)
(* send, whether or not the late reply arrives, and the handle is never    *)
(* IDLE again.                                                             *)
(***************************************************************************)
TimedOut(k) == reqLog[k].op = "request_timeout" /\ reqLog[k].r = OkNone

TimeoutLeavesAwaitingReply ==
    \A k \in DOMAIN reqLog :
        TimedOut(k) =>
            /\ reqFsm = "AWAITING_REPLY"
            /\ \A id \in DOMAIN reqLog :
                   id > k => (reqLog[id].r.res = "Err"
                              /\ reqLog[id].r.kind = "Send"
                              /\ ~reqLog[id].sent)

\* after the timeout the late reply has arrived, and a request and a
\* request_timeout have both failed at their send
TimeoutWitness ==
    /\ Len(reqLog) = MaxCalls
    /\ TimedOut(1)
    /\ toReq # <<>>
    /\ reqLog[2].r = Err("Send", "EFSM")
    /\ reqFsm = "AWAITING_REPLY"

(***************************************************************************)
(* Publish/subscribe histories: the messages published since the set of    *)
(* registered prefixes last changed, and what the receive calls did with   *)
(* them.                                                                   *)
(***************************************************************************)
PublishedSince == (subSince + 1)..Len(pubLog)

\* the Subscriber has nothing left to read
SubDrained == subQ = <<>> /\ ~subMore

\* the messages whose first frame a receive call has read
FirstFrameRead ==
    {subLog[i].id : i \in {j \in DOMAIN subLog : subLog[j].part = 1}}

\* the messages a receive call has returned as an envelope
ReturnedOk ==
    {subLog[i].id : i \in {j \in DOMAIN subLog : IsOkMsg(subLog[j].r)}}

(***************************************************************************)
(* C8: with the empty prefix registered, every message published after the *)
(* registration, by publish or by publish_raw, is returned by a receive    *)
(* call: once the Subscriber has read all there is, each of them has been  *)
(* returned as Ok.                                                         *)
(***************************************************************************)
EmptyPrefixReceivesAll ==
    (<<>> \in Registered /\ SubDrained) => PublishedSince \subseteq ReturnedOk

NoFilterReceivesNothing ==
    \A i \in DOMAIN subLog : ~subLog[i].nofilter

(***************************************************************************)
(* C11: on the Replier the successful operations strictly alternate        *)
(* receive, reply, receive, reply, ... starting with a receive: the        *)
(* receive calls that returned a request and the reply calls that returned *)
(* Ok, in the order they were made.                                        *)
(***************************************************************************)
ReplierOps ==
    SelectSeq(repLog, LAMBDA x : \/ x.ev = "reply"
                                 \/ x.ev = "receive" /\ IsOkMsg(x.r))

ReplierAlternates ==
    \A i \in DOMAIN ReplierOps :
        ReplierOps[i].ev = IF i % 2 = 1 THEN "receive" ELSE "reply"

(***************************************************************************)
(* C12, first part (kept in both readings): a call whose receive read a    *)
(* reply, decodable or not, leaves the Requester in IDLE, and the call     *)
(* after it is not refused at its send.                                    *)
(***************************************************************************)
\* the calls made so far that have returned
Returned == {k \in DOMAIN reqLog : reqLog[k].r # Pending}

IdleAfterReply ==
    \A k \in Returned :
        reqLog[k].got # 0 =>
            /\ (k = Len(reqLog) => reqFsm = "IDLE")
            /\ (k + 1 \in DOMAIN reqLog =>
                    reqLog[k + 1].r # Err("Send", "EFSM"))

(***************************************************************************)
(* C12, as stated: IdleAfterReply, and outside a call the Requester is in  *)
(* AWAITING_REPLY only when the last call sent its request and ended       *)
(* without receiving a reply.                                              *)
(***************************************************************************)
AwaitingOnlyAfterLastCall ==
    /\ IdleAfterReply
    /\ (~reqPc.some /\ reqFsm = "AWAITING_REPLY") =>
           /\ reqLog # <<>>
           /\ reqLog[Len(reqLog)].sent
           /\ reqLog[Len(reqLog)].got = 0

(***************************************************************************)
(* C12, amended: IdleAfterReply, and outside a call the Requester is in    *)
(* AWAITING_REPLY exactly when the last call that sent its request (calls  *)
(* refused at their send coming after it or not) ended without receiving   *)
(* a reply.                                                                *)
(***************************************************************************)
SentCalls == {k \in DOMAIN reqLog : reqLog[k].sent}

LastSent == CHOOSE k \in SentCalls : \A j \in SentCalls : j <= k

AwaitingSinceLastSend ==
    /\ IdleAfterReply
    /\ ~reqPc.some =>
           (reqFsm = "AWAITING_REPLY"
                <=> (SentCalls # {} /\ reqLog[LastSent].got = 0))

\* a request got a reply that does not decode, and the next call was sent
\* and got its reply
AwaitingWitness ==
    /\ Len(reqLog) = 2
    /\ ~reqPc.some
    /\ reqLog[1].r = Err("Serialization", "decode")
    /\ reqLog[1].got = 1
    /\ IsOkMsg(reqLog[2].r)
    /\ reqFsm = "IDLE"

(***************************************************************************)
(* C13: a pull_timeout call whose timeout value was accepted always        *)
(* returns, with the message or with None at its deadline; it never waits  *)
(* without end when no message arrives.  (The callers run under the lock,  *)
(* so that each call meets its own timeout.)                               *)
(***************************************************************************)
PullTimeoutReturns ==
    \A c \in Callers :
        (callLocked /\ callPc[c].st = "recv") ~> (callPc[c].st = "done")

(***************************************************************************)
(* C14: between one Pusher and one Puller, the envelopes the Puller's      *)
(* calls returned are, in order, a prefix of the envelopes pushed.  A      *)
(* Puller is the Pusher's only peer so far when no other Puller has        *)
(* anything queued or returned.                                            *)
(***************************************************************************)
OnlyPeer(p) ==
    \A q \in Pullers \ {p} : pullQ[q] = <<>> /\ pulled[q] = <<>>

IsPrefix(a, b) == Len(a) <= Len(b) /\ SubSeq(b, 1, Len(a)) = a

PulledIsPrefixOfPushed ==
    \A p \in Pullers : OnlyPeer(p) => IsPrefix(pulled[p], pushed)

\* two different envelopes pushed, and returned by one Puller in push order
PulledInOrderWitness ==
    /\ Len(pushed) = 2
    /\ pushed[1] # pushed[2]
    /\ OnlyPeer(1)
    /\ pulled[1] = pushed

(***************************************************************************)
(* C15: after a receive or receive_timeout on the Replier has failed with  *)
(* SerializationError, the request can be skipped: with no reply sent      *)
(* since, a receive call on the handle is not refused.                     *)
(***************************************************************************)
\* the last thing the REP socket did was to hand over a request that did
\* not decode
UndecodedRequestPending ==
    /\ repLog # <<>>
    /\ repLog[Len(repLog)].ev = "receive"
    /\ repLog[Len(repLog)].r = Err("Serialization", "decode")

MalformedRequestCanBeSkipped ==
    (UndecodedRequestPending /\ repLast.op \in {"receive", "receive_timeout"})
        => repLast.r # Err("Receive", "EFSM")

(***************************************************************************)
(* C16: try_pull and try_receive never wait; with nothing queued they      *)
(* return None and change nothing; with messages queued they return the    *)
(* head message and remove exactly that one message.  Here for             *)
(* try_receive: a call that reads anything returns an envelope and leaves  *)
(* the queue without its whole head message.                               *)
(***************************************************************************)
\* what the SUB socket has for the next receive call
VisibleNow == SubVisible(subQ, subMore, subFilters)

TryReceiveTakesOneMessage ==
    [][(SubTryReceive /\ subLog' # subLog) =>
          /\ IsOkMsg(subLog'[Len(subLog')].r)
          /\ subQ' = DropMessage(VisibleNow)
          /\ ~subMore']_vars

(***************************************************************************)
(* C17: the Subscriber's filters behave as a set of prefixes; in           *)
(* particular one unsubscribe(p) stops the delivery for p, however many    *)
(* times subscribe(p) was called: after an unsubscribe(p) the prefix p is  *)
(* not among the prefixes messages are matched against.                    *)
(***************************************************************************)
UnsubscribeStopsDelivery ==
    [][\A p \in Prefixes : Unsubscribe(p) => p \notin Registered']_vars

(***************************************************************************)
(* C18: publish is best-effort.  publish returns without waiting for the   *)
(* Subscriber, whatever the Subscriber has registered or received; and a   *)
(* message reaches the Subscriber only in the step that publishes it, and  *)
(* only if a filter registered at that moment matches it: a message        *)
(* published before the matching filter was registered is never delivered  *)
(* later.                                                                  *)
(***************************************************************************)
\* the messages of which the Subscriber holds or has read a frame
DeliveredIds ==
    {subQ[i].id : i \in DOMAIN subQ} \cup {subLog[i].id : i \in DOMAIN subLog}

PublishIsBestEffort ==
    /\ [](Len(pubLog) < MaxPub => \A m \in News : ENABLED Publish(m))
    /\ [][\A id \in DeliveredIds' \ DeliveredIds :
              /\ pubLog' # pubLog
              /\ id = Len(pubLog')
              /\ Matches(subFilters, pubLog'[id].frames[1])]_vars

\* the first message was published with no filter registered; the empty
\* prefix was registered after it; the second message was delivered and
\* read, the first never
MissedWitness ==
    /\ Len(pubLog) = 2
    /\ Registered = {<<>>}
    /\ subSince = 1
    /\ SubDrained
    /\ DeliveredIds = {2}

(***************************************************************************)
(* C19: setting the receive timeout and receiving are two steps on the     *)
(* socket.  When the callers of one Puller run each whole pull_timeout     *)
(* call under mutual exclusion, every call waits with its own timeout;     *)
(* without it there is an interleaving in which a call waits for the       *)
(* other call's deadline (the witness).                                    *)
(***************************************************************************)
\* caller c's call has returned from its receive
Waited(c) == callPc[c].st = "done" /\ callPc[c].used.some

LockedCallsWaitOwnDeadline ==
    callLocked =>
        \A c \in Callers : Waited(c) => callPc[c].used = Some(callPc[c].ms)

\* without the lock: pull_timeout(200) and pull_timeout(500) raced, and the
\* first returned None at the deadline of the second
RacingCallsWitness ==
    /\ ~callLocked
    /\ callPc[1] = Done(200, Some(500), OkNone)
    /\ callPc[2].st # "idle"
    /\ callPc[2].ms = 500

(***************************************************************************)
(* C20: every successful publish_raw(topic, data) puts one two-frame       *)
(* message on the wire, the topic bytes and then the data bytes, both as   *)
(* they were given; every successful publish, push, request and reply      *)
(* puts one single-frame message on the wire, the encoded envelope.        *)
(***************************************************************************)
\* the frames of published message id that are queued at the Subscriber
QueuedFrames(id) == SelectSeq(subQ, LAMBDA f : f.id = id)

\* a frame queued at the Subscriber is the frame of the published message
\* it belongs to, and is flagged more unless it is the message's last
SubFrameAsPublished(f) ==
    /\ f.part \in DOMAIN pubLog[f.id].frames
    /\ f.bytes = pubLog[f.id].frames[f.part]
    /\ f.more = (f.part < Len(pubLog[f.id].frames))

PublishedAsCalled(e) ==
    IF e.kind = "publish_raw"
    THEN e.frames = <<e.args[1], e.args[2]>>
    ELSE e.frames = <<to_bytes(e.args)>> /\ Decoded(e.frames[1]) = Ok(e.args)

FailedBeforeReceive(k) ==
    /\ reqLog[k].r.res = "Err"
    /\ reqLog[k].r.kind \in {"Send", "Configuration"}

ErrorBeforeReceiveSentNothing ==
    \A k \in DOMAIN reqLog :
        FailedBeforeReceive(k) =>
            /\ ~reqLog[k].sent
            /\ (k = Len(reqLog) /\ reqLog[k].r.kind = "Configuration"
                    => reqFsm = "IDLE")

(***************************************************************************)
(* C22: one receive call of the Subscriber consumes exactly one whole      *)
(* published message: no call leaves the Subscriber inside a message, no   *)
(* call reads a frame other than the first of a message, and so no data    *)
(* frame of a publish_raw message is returned as a decoded envelope.       *)
(***************************************************************************)
OneCallOneMessage ==
    /\ ~subMore
    /\ \A i \in DOMAIN subLog :
           /\ subLog[i].part = 1
           /\ IsOkMsg(subLog[i].r) => pubLog[subLog[i].id].kind = "publish"

(***************************************************************************)
(* C23: publish_raw is all-or-nothing.  After a publish_raw that returned  *)
(* an error the PUB socket holds no frame of it, every message that went   *)
(* out has the frames of one successful call alone (one frame for publish, *)
(* two for publish_raw), and every frame at the Subscriber is a frame of   *)
(* the successful call that produced its message.                          *)
(***************************************************************************)
\* the frames a successful call hands to the socket
CallFrames(e) ==
    IF e.kind = "publish_raw" THEN <<e.args[1], e.args[2]>>
    ELSE <<to_bytes(e.args)>>

PublishRawAllOrNothing ==
    /\ \A id \in DOMAIN pubLog : pubLog[id].frames = CallFrames(pubLog[id])
    /\ \A i \in DOMAIN subQ :
           /\ subQ[i].part \in DOMAIN CallFrames(pubLog[subQ[i].id])
           /\ subQ[i].bytes = CallFrames(pubLog[subQ[i].id])[subQ[i].part]

(***************************************************************************)
(* C24: a Replier.receive_timeout call that returns None leaves the        *)
(* Replier in IDLE.  A reply called right after it fails as a protocol     *)
(* violation (EFSM) and changes nothing; a request queued after it is not  *)
(* refused and not timed out by a later receive or receive_timeout, which  *)
(* reads that request, the next one on the wire, and leaves the Replier    *)
(* able to reply to it.                                                    *)
(***************************************************************************)
\* the last call on the Replier was a receive_timeout that returned None
NoneReturned == repLast.op = "receive_timeout" /\ repLast.r = OkNone

\* the last call on the Replier was a reply refused as a protocol violation
RefusedReply == repLast.op = "reply" /\ repLast.r = Err("Send", "EFSM")

\* a receive or receive_timeout call that read a frame
RepReads ==
    /\ RepReceive \/ \E ms \in TimeoutArgs : RepReceiveTimeout(ms)
    /\ repLast'.waited = "frame"

ReceiveNoneLeavesIdle ==
    /\ [](NoneReturned =>
             /\ repFsm = "IDLE"
             /\ toRep # <<>> =>
                    \A ms \in {-1, 200} :
                        \A o \in RecvOutcomes(toRep, SetTimeo(ms), FALSE) :
                            o.st # "EINTR" =>
                                o.st = "frame" /\ o.frame = Head(toRep))
    /\ [][NoneReturned /\ (\E m \in Replies : Reply(m))
             => /\ RefusedReply'
                /\ UNCHANGED <<toRep, toReq, repFsm, repCur, repLog>>]_vars
    /\ [][(NoneReturned \/ RefusedReply) /\ RepReads
             => /\ toRep # <<>>
                /\ toRep' = Tail(toRep)
                /\ repCur' = Head(toRep).id
                /\ RepMaySend(repFsm')
                /\ Head(toRep).id # 0 =>
                       /\ IsOkMsg(repLast'.r)
                       /\ repLast'.r.msg = reqLog[Head(toRep).id].e]_vars

\* receive_timeout returned None and the next request has arrived since
ReceiveNoneWitness ==
    /\ NoneReturned
    /\ toRep # <<>>
    /\ Head(toRep).id # 0


=============================================================================
